---------------------------- MODULE Spec2Model ----------------------------
(***************************************************************************)
(* A model of the multi-platform scraper (src/unnamed/part_000): the       *)
(* RateLimiter, the Cache, retryRequest, the five platform adapters,       *)
(* processStudent, processBatch and runScraper.                            *)
(*                                                                         *)
(* JavaScript runs every stretch of code between two awaits to completion, *)
(* so each action below is one such stretch.  Time is Date.now() in        *)
(* milliseconds; a timer set for d ms fires at some time >= start + d.     *)
(*                                                                         *)
(* Five specifications share the module:                                   *)
(*   SpecLimiter  several callers of wait() on one RateLimiter instance    *)
(*   SpecFetch    concurrent adapter fetches (cache, limiter, retry)       *)
(*   SpecStudent  processStudent for one entity, the adapter promises      *)
(*                settling in any order, each in any way SpecFetch lets    *)
(*                its adapter settle                                       *)
(*   Spec         runScraper / processBatch over a cohort                  *)
(*   SpecCache    the Cache instance and cache.json over two processes     *)
(***************************************************************************)
EXTENDS Integers, Sequences, FiniteSets, TLC

(***************************************************************************)
(* CONFIG (part_000 lines 147-155)                                         *)
(***************************************************************************)
RETRY_ATTEMPTS == 3

RETRY_DELAY == 2000

CACHE_DURATION == 24 * 60 * 60 * 1000

RATE_LIMIT_DELAY == 200

(***************************************************************************)
(* Bounds of the model                                                     *)
(***************************************************************************)
\* callers of wait() on the limiter under test (SpecLimiter)
NumCallers == 3

\* clock steps of half a limiter interval that SpecLimiter lets pass
MaxTicks == 4

\* the largest count a remote platform reports
MaxCount == 1

\* CONFIG.BATCH_SIZE (100 in the source, line 148), scaled down
BATCH_SIZE == 3

\* CONFIG.CONCURRENCY (10 in the source, line 149), scaled down
CONCURRENCY == 2

\* the largest cohort Spec runs: three batches
MaxStudents == 7

\* SpecCache: the calls of Cache.set in one process
MaxSets == 2

(***************************************************************************)
(* The clock.  Date.now() at start-up is far above every interval and TTL  *)
(* of the program, which is all the model needs of it.                     *)
(***************************************************************************)
StartTime == 2 * CACHE_DURATION

(***************************************************************************)
(* The six RateLimiter instances (lines 230-235) and their delays.         *)
(***************************************************************************)
Limiters ==
    {"rateLimiter", "githubUserLimiter", "githubSearchLimiter",
     "leetcodeLimiter", "codeforcesLimiter", "skillrackLimiter"}

LimiterDelay ==
    [rateLimiter         |-> RATE_LIMIT_DELAY,
     githubUserLimiter   |-> 1200,
     githubSearchLimiter |-> 3000,
     leetcodeLimiter     |-> 500,
     codeforcesLimiter   |-> 1000,
     skillrackLimiter    |-> 800]

Callers == 1 .. NumCallers

VARIABLES
    now,          \* Date.now()
    lastRequest,  \* RateLimiter.lastRequest of every instance
    lim,          \* SpecLimiter: the instance the callers share
    waiters,      \* SpecLimiter: every caller's position in wait()
    cache,        \* Cache.cache: key -> [data, timestamp]
    plat,         \* SpecFetch: the adapter under test
    fetches,      \* SpecFetch: every adapter call's position and history
    student,      \* SpecStudent: the argument of processStudent
    settled,      \* SpecStudent: how each adapter's promise has settled
    ps,           \* SpecStudent: processStudent's position and its promise
    students,     \* Spec: the content of students_mock.json
    fails,        \* Spec: the entities whose remote calls all fail
    run,          \* Spec: runScraper's position, locals and files written
    batch,        \* Spec: processBatch's position and locals
    cacheFile,    \* the content of cache.json
    proc          \* SpecCache: the process that holds the Cache instance

limiterVars == <<lim, waiters>>

fetchVars == <<cache, plat, fetches>>

studentVars == <<student, settled, ps>>

runVars == <<students, fails, run, batch>>

diskVars == <<cacheFile, proc>>

vars ==
    <<now, lastRequest, lim, waiters, cache, plat, fetches,
      student, settled, ps, students, fails, run, batch, cacheFile, proc>>

(***************************************************************************)
(* RateLimiter (lines 213-227)                                             *)
(***************************************************************************)
\* constructor: lastRequest = 0
NewLimiters == [l \in Limiters |-> 0]

\* line 221
TimeSinceLastRequest(l) == now - lastRequest[l]

\* line 222: a mutant that never waits
MustSleepNever(l) == FALSE

\* line 222
MustSleep(l) == TimeSinceLastRequest(l) < LimiterDelay[l]

\* line 223: the timer's duration
SleepMs(l) == LimiterDelay[l] - TimeSinceLastRequest(l)

\* line 225: a mutant in which the instances share one lastRequest
RecordDispatchShared(l) == [m \in Limiters |-> now]

\* line 225
RecordDispatch(l) == [lastRequest EXCEPT ![l] = now]

(***************************************************************************)
(* Platforms, identities and metrics                                       *)
(***************************************************************************)
Platforms == {"leetcode", "github", "codeforces", "atcoder", "skillrack"}

\* an identity as processStudent hands it to an adapter: nothing (undefined,
\* null), a string, or an object with username, id and key ("" is a missing
\* or empty field)
Absent == [type |-> "absent", username |-> "", id |-> "", key |-> ""]

Str(u) == [type |-> "string", username |-> u, id |-> "", key |-> ""]

Obj(u, i, k) == [type |-> "object", username |-> u, id |-> i, key |-> k]

\* the zero-valued metrics of every platform (lines 241, 298, 373, 408, 432)
Zero(p) ==
    CASE p = "leetcode"   -> [total |-> 0, easy |-> 0, medium |-> 0, hard |-> 0]
      [] p = "github"     -> [repos |-> 0, mergedPRs |-> 0]
      [] p = "codeforces" -> [solved |-> 0]
      [] p = "atcoder"    -> [solved |-> 0]
      [] p = "skillrack"  -> [solved |-> 0, userInfo |-> "null"]

\* the metrics an adapter builds from a well-formed response that reports
\* the count n (lines 285-290, 352-355, 401, 425, 112-115); mergedPRs is
\* filled in by the secondary call
Metrics(p, n) ==
    CASE p = "leetcode"   -> [total |-> n, easy |-> n, medium |-> 0, hard |-> 0]
      [] p = "github"     -> [repos |-> n, mergedPRs |-> 0]
      [] p = "codeforces" -> [solved |-> n]
      [] p = "atcoder"    -> [solved |-> n]
      [] p = "skillrack"  -> [solved |-> n, userInfo |-> "found"]

\* the limiter each adapter waits on (lines 247, 304, 379, 414, 443)
LimiterOf(p) ==
    CASE p = "leetcode"   -> "leetcodeLimiter"
      [] p = "github"     -> "githubUserLimiter"
      [] p = "codeforces" -> "codeforcesLimiter"
      [] p = "atcoder"    -> "rateLimiter"
      [] p = "skillrack"  -> "skillrackLimiter"

(***************************************************************************)
(* Cache (lines 158-197).  cache is a function whose domain is the set of  *)
(* keys that have an entry.                                                *)
(***************************************************************************)
\* lines 243, 300, 375, 410: `${platform}_${username}`
CacheKey(p, h) == <<p, h.username>>

\* line 185: a mutant that measures the age from nothing (never expires)
CacheFreshAlways(key) == key \in DOMAIN cache

\* lines 184-185: the entry exists and its age, at lookup time, is below TTL
CacheFresh(key) ==
    /\ key \in DOMAIN cache
    /\ now - cache[key].timestamp < CACHE_DURATION

\* lines 183-189: get returns item.data on a fresh entry, null otherwise
CacheGet(key) ==
    IF CacheFresh(key)
    THEN [hit |-> TRUE, data |-> cache[key].data]
    ELSE [hit |-> FALSE, data |-> [null |-> TRUE]]

\* lines 191-196: a mutant that keeps the entry the key already has
CacheSetIfAbsent(key, data) ==
    [k \in DOMAIN cache \cup {key} |->
        IF k \in DOMAIN cache THEN cache[k] ELSE [data |-> data, timestamp |-> now]]

\* lines 191-196
CacheSet(key, data) ==
    [k \in DOMAIN cache \cup {key} |->
        IF k = key THEN [data |-> data, timestamp |-> now] ELSE cache[k]]

\* cache.json does not exist
MissingFile == [state |-> "missing", entries |-> <<>>]

\* cache.json exists and cannot be read or is not JSON
CorruptFile == [state |-> "corrupt", entries |-> <<>>]

\* cache.json as JSON.stringify(this.cache) writes it (line 177): entries are
\* plain objects of numbers, strings and null, which JSON.parse gives back
\* as they were
ValidFile(c) == [state |-> "valid", entries |-> c]

\* line 167: readFileSync and JSON.parse throw on a file they cannot take
ParseThrows(file) == file.state = "corrupt"

\* lines 164-173: a mutant without the try/catch around the read
LoadCacheThrowsUncaught(file) == file.state # "missing" /\ ParseThrows(file)

\* lines 164-173: what loadCache lets escape to the constructor: nothing,
\* the catch of lines 169-171 only logs
LoadCacheThrows(file) == FALSE

\* lines 164-173: the parsed content, or {} when the file does not exist
\* (line 166) or the read threw (lines 169-172)
LoadCache(file) ==
    IF file.state = "missing" THEN <<>>
    ELSE IF ParseThrows(file) THEN <<>>
    ELSE file.entries

\* lines 175-181: the whole cache is written over the file; a write that
\* fails is logged and leaves the file as it was
SaveCache(file, c, writable) == IF writable THEN ValidFile(c) ELSE file

(***************************************************************************)
(* retryRequest (lines 200-210)                                            *)
(***************************************************************************)
\* line 205: a mutant that is off by one (never the last attempt in time)
LastAttemptLate(i, attempts) == i = attempts

\* line 205
LastAttempt(i, attempts) == i = attempts - 1

\* line 206: a mutant with a constant delay
BackoffDelayFlat(i) == RETRY_DELAY

\* line 206
BackoffDelay(i) == RETRY_DELAY * 2^i

(***************************************************************************)
(* One adapter call (Adapters.*, lines 239-445, and scrapeSkillRack, lines *)
(* 4-121) as a record: where it stands, what it was called with, and what  *)
(* it has done so far.                                                     *)
(*   pc       idle | limiterSleep | remote | backoff | searchSleep |       *)
(*            remote2 | done                                               *)
(*   i        retryRequest's loop index                                    *)
(*   calls    invocations of the operation handed to retryRequest (for     *)
(*            skillrack: of axios.get)                                     *)
(*   outcomes how each invocation ended: "ok" (with the count n that the   *)
(*            response reported), "malformed" or "fail"                    *)
(*   lookup   what cache.get found: whether the key had an entry, the      *)
(*            entry's data and its age (Date.now() - item.timestamp) at    *)
(*            the time of the lookup                                       *)
(*   sleeps   the backoff timers retryRequest has set, in ms               *)
(*   failedAt the time the pending backoff began                           *)
(*   waits    calls of RateLimiter.wait(), by instance                     *)
(*   looked   whether cache.get was called                                 *)
(*   search   how github's merged-PR search ended: none | ok | fail        *)
(*   doneAt   Date.now() when the adapter's promise settled                *)
(*   status   pending | fulfilled | rejected: the promise the adapter      *)
(*            returned; value on fulfilled, error (the number of the       *)
(*            invocation whose failure is propagated) on rejected          *)
(***************************************************************************)
NoValue == [null |-> TRUE]

IdleFetch ==
    [pc |-> "idle", platform |-> "leetcode", handle |-> Absent,
     i |-> 0, calls |-> 0, outcomes |-> <<>>,
     sleeps |-> <<>>, failedAt |-> 0,
     waits |-> <<>>, wakeAt |-> 0, repos |-> 0,
     lookup |-> [had |-> FALSE, age |-> 0, data |-> NoValue],
     cacheHit |-> FALSE, status |-> "pending", value |-> NoValue,
     error |-> 0, looked |-> FALSE, search |-> "none",
     doneAt |-> 0]

\* lines 437-441: a mutant of the skillrack adapter without the check of id
\* and key
HandleUsableWithoutIdKey(p, h) ==
    /\ h.type = IF p = "skillrack" THEN "object" ELSE "string"
    /\ h.username # ""

\* lines 241, 298, 373, 408 (!username) and 432-441, 19 (skillrack): may the
\* adapter go on with this identity?
HandleUsable(p, h) ==
    IF p = "skillrack"
    THEN /\ h.type = "object"
         /\ h.id # ""
         /\ h.key # ""
         /\ h.username # ""
    ELSE /\ h.type = "string"
         /\ h.username # ""

\* the adapters that look the identity up in the cache (skillrack does not)
UsesCache(p) == p # "skillrack"

\* a mutant: the skillrack request under retryRequest, without its own catch
UsesRetryAll(p) == TRUE

\* the adapters that run their remote call inside retryRequest
UsesRetry(p) == p # "skillrack"

\* the responses an adapter answers with zero metrics without caching:
\* leetcode without submission stats (line 283), codeforces status other
\* than OK (lines 390-392), a skillrack page failing validation (lines 58-63)
CanBeMalformed(p) == p \in {"leetcode", "codeforces", "skillrack"}

Fulfil(rec, v) ==
    [rec EXCEPT !.pc = "done", !.status = "fulfilled", !.value = v, !.doneAt = now]

Reject(rec, n) ==
    [rec EXCEPT !.pc = "done", !.status = "rejected", !.error = n, !.doneAt = now]

\* the operation is invoked: axios.post / axios.get leaves
Invoke(rec) ==
    [rec EXCEPT !.pc = "remote", !.calls = @ + 1, !.wakeAt = 0]

(***************************************************************************)
(* processStudent (lines 448-498)                                          *)
(***************************************************************************)
\* an element of students_mock.json: null, or an object with an id and its
\* handles (a missing handles object reads as every handle Absent, line 453)
NullStudent == [isNull |-> TRUE, id |-> 0, handles |-> [p \in Platforms |-> Absent]]

MkStudent(id, hs) == [isNull |-> FALSE, id |-> id, handles |-> hs]

NoHandles == [p \in Platforms |-> Absent]

FullHandles ==
    [p \in Platforms |->
        IF p = "skillrack" THEN Obj("alice", "7", "k") ELSE Str("alice")]

\* some handles missing, empty or of the wrong shape
MixedHandles ==
    [leetcode |-> Str("alice"), github |-> Str(""), codeforces |-> Absent,
     atcoder |-> Str("alice"), skillrack |-> Str("alice")]

\* a settled promise as Promise.allSettled reports it (line 452)
Pending == [status |-> "pending", value |-> NoValue]

Fulfilled(v) == [status |-> "fulfilled", value |-> v]

Rejected == [status |-> "rejected", value |-> NoValue]

\* the values an adapter can resolve with after a remote call
AdapterValues(p) ==
    IF p = "github"
    THEN {[repos |-> n, mergedPRs |-> m] : n \in 0 .. MaxCount, m \in 0 .. MaxCount}
    ELSE {Zero(p)} \cup {Metrics(p, n) : n \in 0 .. MaxCount}

\* how the promise of adapter p, called with identity h, can settle: zero
\* metrics without a remote call on an unusable identity; else a value, or
\* (not for skillrack, which catches) the failure retryRequest rethrows
AdapterOutcomes(p, h) ==
    IF ~HandleUsable(p, h) THEN {Fulfilled(Zero(p))}
    ELSE {Fulfilled(v) : v \in AdapterValues(p)}
           \cup (IF UsesRetry(p) THEN {Rejected} ELSE {})

\* line 453: reading student.handles throws on null
TryThrows(s) == s.isNull

\* line 480: the handler reads student.name, which throws on null
CatchThrows(s) == s.isNull

\* lines 465-469: a mutant that takes the fallback whatever the status
SettleAlwaysZero(p, o) == Zero(p)

\* lines 465-469: the value on fulfilled, the zero metrics on rejected
Settle(p, o) == IF o.status = "fulfilled" THEN o.value ELSE Zero(p)

\* x || 0
OrZero(x) == IF x = 0 THEN 0 ELSE x

\* line 476: a mutant that counts the repositories in
TotalCPWithGithub(d) ==
    d.leetcode.total + d.codeforces.solved + d.atcoder.solved
        + OrZero(d.skillrack.solved) + d.github.repos

\* line 476
TotalCP(d) ==
    d.leetcode.total + d.codeforces.solved + d.atcoder.solved
        + OrZero(d.skillrack.solved)

\* lines 460-478: the result of the normal path
JoinResult(s, outs) ==
    LET d == [p \in Platforms |-> Settle(p, outs[p])]
    IN  [id |-> s.id, handles |-> s.handles,
         data |-> [leetcode |-> d.leetcode, github |-> d.github,
                   codeforces |-> d.codeforces, atcoder |-> d.atcoder,
                   skillrack |-> d.skillrack, totalCP |-> TotalCP(d)],
         error |-> "none"]

\* lines 481-496: the result of the catch handler
CatchResult(s) ==
    [id |-> s.id, handles |-> s.handles,
     data |-> [leetcode |-> Zero("leetcode"), github |-> Zero("github"),
               codeforces |-> Zero("codeforces"), atcoder |-> Zero("atcoder"),
               skillrack |-> Zero("skillrack"), totalCP |-> 0],
     error |-> "message"]

\* processStudent's promise
IdleStudent == [pc |-> "idle", result |-> NoValue]

\* processStudent(s) up to its await (lines 449-458), given what the five
\* adapter promises look like right after the calls
StudentCalled(s) ==
    IF TryThrows(s)
    THEN IF CatchThrows(s)
         THEN [pc |-> "rejected", result |-> NoValue]
         ELSE [pc |-> "resolved", result |-> CatchResult(s)]
    ELSE [pc |-> "joining", result |-> NoValue]

(***************************************************************************)
(* What each specification leaves untouched                                *)
(***************************************************************************)
\* SpecFetch runs two adapter calls side by side
Fetchers == {1, 2}

IdleWaiter ==
    [pc |-> "idle", wakeAt |-> 0, started |-> 0, returned |-> 0, after |-> {}]

LimiterUnused ==
    /\ lim = "rateLimiter"
    /\ waiters = [c \in Callers |-> IdleWaiter]

FetchUnused ==
    /\ cache = <<>>
    /\ plat = "leetcode"
    /\ fetches = [f \in Fetchers |-> IdleFetch]

StudentUnused ==
    /\ student = NullStudent
    /\ settled = [p \in Platforms |-> Pending]
    /\ ps = IdleStudent

\* cacheSaves counts the calls of cache.saveCache(), saveErrors those whose
\* write failed; cause is the statement whose exception reached runScraper's
\* catch (lines 574-577): input | entity | snapshot | summary | summaryWrite
IdleRun ==
    [pc |-> "start", i |-> 0, allResults |-> <<>>, snapshots |-> <<>>,
     pauses |-> 0, cacheSaves |-> 0, summaries |-> 0, reordered |-> FALSE,
     saveErrors |-> 0, cause |-> "none"]

IdleBatch ==
    [pc |-> "idle", students |-> <<>>, j |-> 0, results |-> <<>>,
     calls |-> <<>>, order |-> <<>>]

RunUnused ==
    /\ students = <<>>
    /\ fails = <<>>
    /\ run = IdleRun
    /\ batch = IdleBatch

\* proc: whether the process runs (pc), the state of cache.json its Cache
\* was constructed from, the Cache.set calls since, and the processes so far
IdleProc == [pc |-> "up", loadedFrom |-> "missing", sets |-> 0, starts |-> 1]

DiskUnused ==
    /\ cacheFile = MissingFile
    /\ proc = IdleProc

(***************************************************************************)
(* SpecLimiter: NumCallers callers, each calling wait() once on the shared *)
(* instance lim, at any time and in any order.                             *)
(***************************************************************************)
\* the callers whose wait() has returned
Returned == {c \in Callers : waiters[c].pc = "returned"}

InitLimiter ==
    /\ now = StartTime
    /\ lastRequest = NewLimiters
    /\ lim \in Limiters
    /\ waiters = [c \in Callers |-> IdleWaiter]
    /\ FetchUnused
    /\ StudentUnused
    /\ RunUnused
    /\ DiskUnused

\* wait() up to its first await (lines 220-223), or to its end when the
\* interval has already elapsed (lines 220-225)
WaitCall(c) ==
    /\ waiters[c].pc = "idle"
    /\ IF MustSleep(lim)
       THEN /\ waiters' = [waiters EXCEPT ![c] =
                   [pc |-> "sleeping", wakeAt |-> now + SleepMs(lim),
                    started |-> now, returned |-> 0, after |-> Returned]]
            /\ UNCHANGED lastRequest
       ELSE /\ waiters' = [waiters EXCEPT ![c] =
                   [pc |-> "returned", wakeAt |-> 0,
                    started |-> now, returned |-> now, after |-> Returned]]
            /\ lastRequest' = RecordDispatch(lim)
    /\ UNCHANGED <<now, lim, fetchVars, studentVars, runVars, diskVars>>

\* the timer of line 223 fires; line 225
WaitWake(c) ==
    /\ waiters[c].pc = "sleeping"
    /\ now >= waiters[c].wakeAt
    /\ waiters' = [waiters EXCEPT ![c].pc = "returned", ![c].returned = now]
    /\ lastRequest' = RecordDispatch(lim)
    /\ UNCHANGED <<now, lim, fetchVars, studentVars, runVars, diskVars>>

\* time passes, half an interval of the instance at a time
TickLimiter ==
    /\ now < StartTime + MaxTicks * (LimiterDelay[lim] \div 2)
    /\ now' = now + (LimiterDelay[lim] \div 2)
    /\ UNCHANGED <<lastRequest, lim, waiters, fetchVars, studentVars, runVars, diskVars>>

NextLimiter ==
    \/ \E c \in Callers : WaitCall(c)
    \/ \E c \in Callers : WaitWake(c)
    \/ TickLimiter

SpecLimiter == InitLimiter /\ [][NextLimiter]_vars

\* a and b were inside wait() at the same time
Overlap(a, b) ==
    /\ a # b
    /\ a \notin waiters[b].after
    /\ b \notin waiters[a].after

Abs(x) == IF x < 0 THEN -x ELSE x

\* C2: any two callers that were inside wait() of the same instance at the
\* same time return at least the instance's delay apart.
C2_ConcurrentCallersSerialized ==
    \A a, b \in Returned :
        Overlap(a, b) =>
            Abs(waiters[a].returned - waiters[b].returned) >= LimiterDelay[lim]

\* C3: when b's wait() started after a's wait() had returned, b returns at
\* least the instance's delay after a returned.
C3_ConsecutiveWaitsSpaced ==
    \A a, b \in Returned :
        a \in waiters[b].after =>
            waiters[b].returned >= waiters[a].returned + LimiterDelay[lim]

\* C3's case: the second call started within the interval, slept and returned
C3_Witness ==
    \E a, b \in Returned :
        /\ a \in waiters[b].after
        /\ waiters[b].started < waiters[a].returned + LimiterDelay[lim]
        /\ waiters[b].started > waiters[a].returned

\* the callers whose wait() returns in this step
Returning == {c \in Callers : waiters[c].pc # "returned" /\ waiters'[c].pc = "returned"}

\* C19: lastRequest of an instance never decreases, and it changes only when
\* a wait() of that instance returns, to the time of that return; also when
\* several wait() calls on the instance overlap.
C19_LastRequestMonotone ==
    [][\A l \in Limiters :
          /\ lastRequest'[l] >= lastRequest[l]
          /\ lastRequest'[l] # lastRequest[l] =>
                /\ l = lim
                /\ Returning # {}
                /\ lastRequest'[l] = now]_vars

\* C19's case: overlapping calls have returned at different times and
\* lastRequest is the time of the last return
C19_Witness ==
    \E a, b \in Returned :
        /\ Overlap(a, b)
        /\ waiters[a].returned < waiters[b].returned
        /\ lastRequest[lim] = waiters[b].returned


(***************************************************************************)
(* SpecFetch: two calls of one adapter       (any of the five), each     *)
(* with any identity and started at any time; every remote call may        *)
(* succeed, answer with a malformed response, or fail.                     *)
(***************************************************************************)
RemoteCounts == 0 .. MaxCount

\* the identities the calls are made with
HandlesFor(p) ==
    IF p = "skillrack"
    THEN {Absent, Str("alice"), Obj("alice", "", "k"), Obj("alice", "7", ""),
          Obj("", "7", "k"), Obj("alice", "7", "k")}
    ELSE {Absent, Str(""), Str("alice")}

\* what the cache holds when the two calls are made: the entry an earlier
\* fetch for another identity of the platform has left
EarlierEntries(p) ==
    [k \in (IF UsesCache(p) THEN {CacheKey(p, Str("bob"))} ELSE {}) |->
        [data |-> Metrics(p, 1), timestamp |-> StartTime - 1]]

InitFetch ==
    /\ now = StartTime
    /\ lastRequest = NewLimiters
    /\ plat \in Platforms
    /\ cache = EarlierEntries(plat)
    /\ DiskUnused
    /\ fetches = [f \in Fetchers |-> IdleFetch]
    /\ LimiterUnused
    /\ StudentUnused
    /\ RunUnused

\* rec calls wait() on limiter l (lines 220-225); when the interval has
\* elapsed wait() returns at once and the caller goes on with `then`
EnterWait(f, rec, l, sleepPc, then) ==
    IF MustSleep(l)
    THEN /\ fetches' = [fetches EXCEPT ![f] =
                [rec EXCEPT !.pc = sleepPc, !.wakeAt = now + SleepMs(l),
                            !.waits = Append(@, l)]]
         /\ UNCHANGED lastRequest
    ELSE /\ fetches' = [fetches EXCEPT ![f] =
                [then EXCEPT !.waits = Append(@, l)]]
         /\ lastRequest' = RecordDispatch(l)

\* the adapter is called (lines 240-249, 297-306, 372-381, 407-416, 431-443
\* and 4-21): identity check, cache lookup, wait()
FetchStart(f, h) ==
    /\ fetches[f].pc = "idle"
    /\ LET p == plat
           called == [IdleFetch EXCEPT !.platform = p, !.handle = h]
           key == CacheKey(p, h)
           got == CacheGet(key)
           rec == [called EXCEPT !.looked = TRUE, !.lookup =
                      IF key \in DOMAIN cache
                      THEN [had |-> TRUE, age |-> now - cache[key].timestamp,
                            data |-> cache[key].data]
                      ELSE [had |-> FALSE, age |-> 0, data |-> NoValue]]
       IN  IF ~HandleUsable(p, h)
           THEN /\ fetches' = [fetches EXCEPT ![f] = Fulfil(called, Zero(p))]
                /\ UNCHANGED lastRequest
           ELSE IF ~UsesCache(p)
           THEN EnterWait(f, called, LimiterOf(p), "limiterSleep", Invoke(called))
           ELSE IF got.hit
           THEN /\ fetches' = [fetches EXCEPT ![f] =
                       Fulfil([rec EXCEPT !.cacheHit = TRUE], got.data)]
                /\ UNCHANGED lastRequest
           ELSE EnterWait(f, rec, LimiterOf(p), "limiterSleep", Invoke(rec))
    /\ UNCHANGED <<now, cache, plat, limiterVars, studentVars, runVars, diskVars>>

\* the timer of wait() fires (line 225) and the first attempt leaves
LimiterWake(f) ==
    /\ fetches[f].pc = "limiterSleep"
    /\ now >= fetches[f].wakeAt
    /\ fetches' = [fetches EXCEPT ![f] = Invoke(fetches[f])]
    /\ lastRequest' = RecordDispatch(LimiterOf(fetches[f].platform))
    /\ UNCHANGED <<now, cache, plat, limiterVars, studentVars, runVars, diskVars>>


\* an invocation of the operation ends
Ended(rec, how, n) == [rec EXCEPT !.outcomes = Append(@, [how |-> how, n |-> n])]

\* the remote call answers with a well-formed response reporting n:
\* lines 282-293, 323-333, 390-403, 425-427, 55-115
RemoteOk(f, n) ==
    /\ fetches[f].pc = "remote"
    /\ LET rec == Ended(fetches[f], "ok", n)
           p == rec.platform
       IN  CASE p = "github" ->
                  \* the primary lookup succeeded: wait on the search limiter
                  \* and send the merged-PR search (lines 330-343)
                  /\ EnterWait(f, [rec EXCEPT !.repos = n], "githubSearchLimiter",
                               "searchSleep",
                               [rec EXCEPT !.repos = n, !.pc = "remote2"])
                  /\ UNCHANGED cache
             [] p = "skillrack" ->
                  /\ fetches' = [fetches EXCEPT ![f] = Fulfil(rec, Metrics(p, n))]
                  /\ UNCHANGED <<cache, lastRequest>>
             [] OTHER ->
                  /\ cache' = CacheSet(CacheKey(p, rec.handle), Metrics(p, n))
                  /\ fetches' = [fetches EXCEPT ![f] = Fulfil(rec, Metrics(p, n))]
                  /\ UNCHANGED lastRequest
    /\ UNCHANGED <<now, plat, limiterVars, studentVars, runVars, diskVars>>

\* lines 283, 390-392: a mutant that throws on such a response, so that
\* retryRequest takes it for a failed attempt
RemoteMalformedRetried(f) ==
    /\ fetches[f].pc = "remote"
    /\ CanBeMalformed(fetches[f].platform)
    /\ LET rec == Ended(fetches[f], "malformed", 0)
       IN  fetches' = [fetches EXCEPT ![f] =
               IF LastAttempt(rec.i, RETRY_ATTEMPTS)
               THEN Reject(rec, rec.calls)
               ELSE [rec EXCEPT !.pc = "backoff",
                                !.sleeps = Append(@, BackoffDelay(rec.i)),
                                !.failedAt = now,
                                !.wakeAt = now + BackoffDelay(rec.i)]]
    /\ UNCHANGED <<now, lastRequest, cache, plat, limiterVars, studentVars, runVars, diskVars>>

\* the remote call answers, but not with data the adapter can use: zero
\* metrics, nothing cached (lines 283, 390-392, 58-63)
RemoteMalformed(f) ==
    /\ fetches[f].pc = "remote"
    /\ CanBeMalformed(fetches[f].platform)
    /\ fetches' = [fetches EXCEPT ![f] =
            Fulfil(Ended(fetches[f], "malformed", 0), Zero(fetches[f].platform))]
    /\ UNCHANGED <<now, lastRequest, cache, plat, limiterVars, studentVars, runVars, diskVars>>

\* the remote call fails (timeout, connection error, HTTP error status).
\* skillrack catches it (lines 50-53); under retryRequest the catch of lines
\* 204-208 runs: rethrow on the last attempt, else set the backoff timer
RemoteFail(f) ==
    /\ fetches[f].pc = "remote"
    /\ LET rec == Ended(fetches[f], "fail", 0)
       IN  fetches' = [fetches EXCEPT ![f] =
               IF ~UsesRetry(rec.platform)
               THEN Fulfil(rec, Zero(rec.platform))
               ELSE IF LastAttempt(rec.i, RETRY_ATTEMPTS)
               THEN Reject(rec, rec.calls)
               ELSE [rec EXCEPT !.pc = "backoff",
                                !.sleeps = Append(@, BackoffDelay(rec.i)),
                                !.failedAt = now,
                                !.wakeAt = now + BackoffDelay(rec.i)]]
    /\ UNCHANGED <<now, lastRequest, cache, plat, limiterVars, studentVars, runVars, diskVars>>

\* line 203: a mutant in which every attempt passes the limiter's bookkeeping
BackoffWakeRecorded(f) ==
    /\ fetches[f].pc = "backoff"
    /\ now >= fetches[f].wakeAt
    /\ fetches' = [fetches EXCEPT ![f] =
            Invoke([fetches[f] EXCEPT !.i = @ + 1, !.failedAt = 0])]
    /\ lastRequest' = RecordDispatch(LimiterOf(fetches[f].platform))
    /\ UNCHANGED <<now, cache, plat, limiterVars, studentVars, runVars, diskVars>>

\* the backoff timer of line 207 fires: next iteration of the loop, line 203
BackoffWake(f) ==
    /\ fetches[f].pc = "backoff"
    /\ now >= fetches[f].wakeAt
    /\ fetches' = [fetches EXCEPT ![f] =
            Invoke([fetches[f] EXCEPT !.i = @ + 1, !.failedAt = 0])]
    /\ UNCHANGED <<now, lastRequest, cache, plat, limiterVars, studentVars, runVars, diskVars>>

\* the timer of githubSearchLimiter.wait() fires; the search leaves
SearchWake(f) ==
    /\ fetches[f].pc = "searchSleep"
    /\ now >= fetches[f].wakeAt
    /\ fetches' = [fetches EXCEPT ![f].pc = "remote2", ![f].wakeAt = 0]
    /\ lastRequest' = RecordDispatch("githubSearchLimiter")
    /\ UNCHANGED <<now, cache, plat, limiterVars, studentVars, runVars, diskVars>>

\* lines 347-358: a mutant in which a failed search zeroes the whole result
GithubResultZeroOnFail(f, merged, how) ==
    LET rec == [fetches[f] EXCEPT !.search = how]
        result == [repos |-> IF how = "fail" THEN 0 ELSE rec.repos,
                   mergedPRs |-> merged]
    IN  /\ cache' = CacheSet(CacheKey("github", rec.handle), result)
        /\ fetches' = [fetches EXCEPT ![f] = Fulfil(rec, result)]

\* lines 352-358: the github result is built, cached and returned
GithubResult(f, merged, how) ==
    LET rec == [fetches[f] EXCEPT !.search = how]
        result == [repos |-> rec.repos, mergedPRs |-> merged]
    IN  /\ cache' = CacheSet(CacheKey("github", rec.handle), result)
        /\ fetches' = [fetches EXCEPT ![f] = Fulfil(rec, result)]

\* the merged-PR search answers with total_count m (lines 345-346)
SearchOk(f, m) ==
    /\ fetches[f].pc = "remote2"
    /\ GithubResult(f, m, "ok")
    /\ UNCHANGED <<now, lastRequest, plat, limiterVars, studentVars, runVars, diskVars>>

\* lines 347-358: a mutant that returns the degraded result without caching
SearchFailUncached(f) ==
    /\ fetches[f].pc = "remote2"
    /\ fetches' = [fetches EXCEPT ![f] =
            Fulfil([fetches[f] EXCEPT !.search = "fail"],
                   [repos |-> fetches[f].repos, mergedPRs |-> 0])]
    /\ UNCHANGED <<now, lastRequest, cache, plat, limiterVars, studentVars, runVars, diskVars>>

\* the merged-PR search fails: mergedPRs = 0 (lines 347-350)
SearchFail(f) ==
    /\ fetches[f].pc = "remote2"
    /\ GithubResult(f, 0, "fail")
    /\ UNCHANGED <<now, lastRequest, plat, limiterVars, studentVars, runVars, diskVars>>

\* the sleeping calls' timers that have not expired yet
Deadlines ==
    {fetches[f].wakeAt : f \in {g \in Fetchers :
        /\ fetches[g].pc \in {"limiterSleep", "backoff", "searchSleep"}
        /\ fetches[g].wakeAt > now}}

\* time passes until the next timer expires
AdvanceToTimer ==
    /\ Deadlines # {}
    /\ now' = CHOOSE d \in Deadlines : \A e \in Deadlines : d <= e
    /\ UNCHANGED <<lastRequest, cache, plat, fetches, limiterVars, studentVars, runVars, diskVars>>

\* time passes, once: the cache's TTL, or one millisecond less
AdvanceDay(d) ==
    /\ now + d <= StartTime + CACHE_DURATION
    /\ now' = now + d
    /\ UNCHANGED <<lastRequest, cache, plat, fetches, limiterVars, studentVars, runVars, diskVars>>

NextFetch ==
    \/ \E f \in Fetchers, h \in HandlesFor(plat) : FetchStart(f, h)
    \/ \E f \in Fetchers : LimiterWake(f)
    \/ \E f \in Fetchers, n \in RemoteCounts : RemoteOk(f, n)
    \/ \E f \in Fetchers : RemoteMalformed(f)
    \/ \E f \in Fetchers : RemoteFail(f)
    \/ \E f \in Fetchers : BackoffWake(f)
    \/ \E f \in Fetchers : SearchWake(f)
    \/ \E f \in Fetchers, m \in RemoteCounts : SearchOk(f, m)
    \/ \E f \in Fetchers : SearchFail(f)
    \/ AdvanceToTimer
    \/ \E d \in {CACHE_DURATION - 1, CACHE_DURATION} : AdvanceDay(d)

SpecFetch == InitFetch /\ [][NextFetch]_vars


(***************************************************************************)
(* Claims about the adapters, retryRequest and the Cache (SpecFetch)       *)
(***************************************************************************)
\* the calls that have settled
Settled == {f \in Fetchers : fetches[f].pc = "done"}

\* the calls whose operation ran under retryRequest
Retried == {f \in Fetchers : fetches[f].calls > 0 /\ fetches[f].platform # "skillrack"}

Failures(f) == {k \in 1 .. Len(fetches[f].outcomes) : fetches[f].outcomes[k].how = "fail"}

AllFailed(f, n) ==
    /\ Len(fetches[f].outcomes) = n
    /\ Failures(f) = 1 .. n

SettlesWithinAdapterOutcomes ==
    \A f \in Settled :
        [status |-> fetches[f].status, value |-> fetches[f].value]
            \in AdapterOutcomes(fetches[f].platform, fetches[f].handle)

C8_AlwaysFailingOperation ==
    \A f \in Retried :
        LET rec == fetches[f]
        IN  /\ AllFailed(f, 1) => rec.sleeps = <<2000>> /\ rec.calls \in {1, 2}
            /\ AllFailed(f, 2) => rec.sleeps = <<2000, 4000>> /\ rec.calls \in {2, 3}
            /\ AllFailed(f, 3) =>
                   /\ rec.calls = 3
                   /\ rec.sleeps = <<2000, 4000>>
                   /\ rec.pc = "done"
                   /\ rec.status = "rejected"
                   /\ rec.error = 3
            /\ \A k \in 1 .. Len(rec.sleeps) : rec.sleeps[k] = RETRY_DELAY * 2^(k - 1)
            /\ rec.pc = "backoff" =>
                   rec.wakeAt = rec.failedAt + RETRY_DELAY * 2^(Len(rec.sleeps) - 1)

\* C8's case: three failures, and the rejection
C8_Witness ==
    \E f \in Retried :
        /\ AllFailed(f, 3)
        /\ fetches[f].status = "rejected"
        /\ fetches[f].sleeps = <<2000, 4000>>

\* the value an invocation that ended "ok" or "malformed" returned
Returns(rec, o) ==
    IF o.how = "malformed" THEN Zero(rec.platform)
    ELSE IF rec.platform = "github"
    THEN [repos |-> o.n, mergedPRs |-> rec.value.mergedPRs]
    ELSE Metrics(rec.platform, o.n)

\* C9: when the operation first succeeds on its k-th invocation, it has
\* been invoked exactly k times, k - 1 backoff timers have been set,
\* retryRequest resolves with that invocation's value, and the operation
\* is never invoked more than RETRY_ATTEMPTS times.
C9_SuccessEndsRetrying ==
    \A f \in Retried :
        LET rec == fetches[f]
            k == Len(rec.outcomes)
        IN  /\ rec.calls <= RETRY_ATTEMPTS
            /\ (k > 0 /\ rec.outcomes[k].how # "fail") =>
                   /\ Failures(f) = 1 .. (k - 1)
                   /\ rec.calls = k
                   /\ Len(rec.sleeps) = k - 1
                   /\ rec.pc \in {"done", "searchSleep", "remote2"}
                   /\ rec.pc = "done" =>
                          /\ rec.status = "fulfilled"
                          /\ rec.value = Returns(rec, rec.outcomes[k])

\* C9's case: two failures, then a success on the third invocation
C9_Witness ==
    \E f \in Retried :
        /\ fetches[f].pc = "done"
        /\ Len(fetches[f].outcomes) = 3
        /\ fetches[f].outcomes[3].how = "ok"
        /\ fetches[f].outcomes[3].n = 1
        /\ fetches[f].status = "fulfilled"

\* the calls that got as far as the cache lookup
LookedUp ==
    {f \in Fetchers :
        /\ fetches[f].pc # "idle"
        /\ fetches[f].platform # "skillrack"
        /\ HandleUsable(fetches[f].platform, fetches[f].handle)}

\* C10: the lookup hits exactly when the key has an entry whose age at the
\* time of the lookup is below CACHE_DURATION, and then the adapter returns
\* the entry's data without a remote call; otherwise the adapter goes on to
\* wait() and the remote call.  The lookup leaves the cache as it is.
C10_LookupState ==
    \A f \in LookedUp :
        LET rec == fetches[f]
            fresh == rec.lookup.had /\ rec.lookup.age < CACHE_DURATION
        IN  /\ rec.cacheHit <=> fresh
            /\ rec.cacheHit =>
                   /\ rec.pc = "done"
                   /\ rec.status = "fulfilled"
                   /\ rec.value = rec.lookup.data
                   /\ rec.calls = 0
                   /\ rec.waits = <<>>
            /\ ~rec.cacheHit =>
                   /\ Len(rec.waits) >= 1
                   /\ rec.pc = "limiterSleep" \/ rec.calls >= 1

C10_CacheGetSemantics ==
    /\ []C10_LookupState
    /\ [][(\E f \in Fetchers : fetches[f].pc = "idle" /\ fetches'[f].pc # "idle")
            => cache' = cache]_vars

\* C10's case: an entry that has reached the TTL is looked up, missed, and
\* fetched afresh, and is still in the cache while the fetch is under way
C10_Witness ==
    \E f \in LookedUp :
        /\ fetches[f].lookup.had
        /\ fetches[f].lookup.age = CACHE_DURATION
        /\ ~fetches[f].cacheHit
        /\ fetches[f].pc = "remote"
        /\ CacheKey(fetches[f].platform, fetches[f].handle) \in DOMAIN cache

\* the remote call of g succeeded and g has returned its result
Succeeded(g) ==
    /\ fetches[g].pc = "done"
    /\ fetches[g].status = "fulfilled"
    /\ Len(fetches[g].outcomes) > 0
    /\ fetches[g].outcomes[Len(fetches[g].outcomes)].how = "ok"

\* this step is the call of adapter f, for the identity g succeeded with and
\* less than the TTL after g returned
StartsWithinTTLOf(f, g) ==
    /\ f # g
    /\ fetches[f].pc = "idle"
    /\ fetches'[f].pc # "idle"
    /\ Succeeded(g)
    /\ fetches'[f].handle = fetches[g].handle
    /\ now - fetches[g].doneAt < CACHE_DURATION

\* the call of f returns the cache's entry at once: no wait(), no remote call
ServedFromCache(f) ==
    /\ fetches'[f].pc = "done"
    /\ fetches'[f].status = "fulfilled"
    /\ fetches'[f].cacheHit
    /\ CacheKey(plat, fetches'[f].handle) \in DOMAIN cache
    /\ fetches'[f].value = cache[CacheKey(plat, fetches'[f].handle)].data
    /\ fetches'[f].waits = <<>>
    /\ fetches'[f].calls = 0
    /\ lastRequest' = lastRequest

\* C11: after a fetch of any adapter has succeeded, a later fetch for the
\* same platform and identity that starts within the TTL returns the cached
\* value with neither a wait() nor a remote call.
C11_LaterFetchServedFromCache ==
    [][\A f, g \in Fetchers : StartsWithinTTLOf(f, g) => ServedFromCache(f)]_vars

\* C11 holds of the four adapters that use the cache
C11_HoldsOfCachingAdapters ==
    [][\A f, g \in Fetchers :
          (UsesCache(plat) /\ StartsWithinTTLOf(f, g)) => ServedFromCache(f)]_vars

\* a handle that is missing or malformed: absent, empty, or for skillrack a
\* bare string or an object without id or key
MissingOrMalformed(p, h) ==
    \/ h.type = "absent"
    \/ h.type = "string" /\ h.username = ""
    \/ p = "skillrack" /\ h.type = "string"
    \/ p = "skillrack" /\ h.type = "object" /\ (h.id = "" \/ h.key = "")

\* the ways the five adapter promises of entity s can settle
OutcomesOf(s) ==
    [leetcode   : AdapterOutcomes("leetcode", s.handles.leetcode),
     github     : AdapterOutcomes("github", s.handles.github),
     codeforces : AdapterOutcomes("codeforces", s.handles.codeforces),
     atcoder    : AdapterOutcomes("atcoder", s.handles.atcoder),
     skillrack  : AdapterOutcomes("skillrack", s.handles.skillrack)]

\* the entity's result is emitted, without an error annotation and with zero
\* metrics for the platforms whose handle is missing or malformed
EmittedWithoutError(s) ==
    /\ StudentCalled(s).pc = "joining"
    /\ \A outs \in OutcomesOf(s) :
          /\ JoinResult(s, outs).error = "none"
          /\ \A p \in Platforms :
                MissingOrMalformed(p, s.handles[p]) =>
                    JoinResult(s, outs).data[p] = Zero(p)

\* C12: an adapter called with a missing or malformed handle returns the
\* platform's zero metrics at once, without a wait(), a cache lookup or a
\* remote call; and the result of an entity with such handles is emitted
\* without an error annotation.
C12_MalformedHandleShortCircuits ==
    /\ \A f \in Fetchers :
          (fetches[f].pc # "idle"
              /\ MissingOrMalformed(fetches[f].platform, fetches[f].handle)) =>
                 /\ fetches[f].pc = "done"
                 /\ fetches[f].status = "fulfilled"
                 /\ fetches[f].value = Zero(fetches[f].platform)
                 /\ fetches[f].waits = <<>>
                 /\ ~fetches[f].looked
                 /\ fetches[f].calls = 0
    /\ (\A f \in Fetchers : fetches[f].waits = <<>>) => lastRequest = NewLimiters
    \* (does not depend on the state: evaluated before the first call only)
    /\ (\A f \in Fetchers : fetches[f].pc = "idle") =>
          /\ EmittedWithoutError(MkStudent(1, NoHandles))
          /\ EmittedWithoutError(MkStudent(1, MixedHandles))

\* C12's case: the skillrack adapter was called with an object without key
\* and with a bare string, and no limiter was touched
C12_Witness ==
    /\ plat = "skillrack"
    /\ fetches[1].pc = "done"
    /\ fetches[1].handle = Obj("alice", "7", "")
    /\ fetches[2].pc = "done"
    /\ fetches[2].handle = Str("alice")
    /\ lastRequest = NewLimiters

\* the github calls whose merged-PR search failed
SearchFailed == {f \in Fetchers : fetches[f].search = "fail"}

\* C15: when github's primary lookup succeeds and the merged-PR search
\* fails, the adapter resolves with the primary's repos and mergedPRs = 0;
\* the primary is not invoked again, no backoff timer is set for it, and the
\* entity's result carries the value without an error annotation.
C15_SecondaryFailureKeepsPrimary ==
    /\ \A f \in SearchFailed :
          LET rec == fetches[f]
              k == Len(rec.outcomes)
          IN  /\ rec.platform = "github"
              /\ rec.pc = "done"
              /\ rec.status = "fulfilled"
              /\ rec.outcomes[k].how = "ok"
              /\ rec.value = [repos |-> rec.outcomes[k].n, mergedPRs |-> 0]
              /\ rec.calls = k
              /\ Failures(f) = 1 .. (k - 1)
              /\ Len(rec.sleeps) = k - 1
    \* (does not depend on the state: evaluated before the first call only)
    /\ (\A f \in Fetchers : fetches[f].pc = "idle") =>
          \A n \in 0 .. MaxCount :
              LET s == MkStudent(1, FullHandles)
                  v == [repos |-> n, mergedPRs |-> 0]
                  outs == [p \in Platforms |->
                              IF p = "github" THEN Fulfilled(v) ELSE Rejected]
              IN  /\ Fulfilled(v) \in AdapterOutcomes("github", s.handles.github)
                  /\ JoinResult(s, outs).data.github = v
                  /\ JoinResult(s, outs).error = "none"

\* C15's case: the first lookup succeeded with a non-zero count and the
\* search failed
C15_Witness ==
    \E f \in SearchFailed :
        /\ fetches[f].pc = "done"
        /\ fetches[f].calls = 1
        /\ fetches[f].value = [repos |-> 1, mergedPRs |-> 0]

\* the adapter call f has looked the identity up before its remote call
\* and, having succeeded, has left the value in the cache
CachedAround(f) ==
    LET rec == fetches[f]
        key == CacheKey(rec.platform, rec.handle)
    IN  /\ rec.calls > 0 => rec.looked
        /\ Succeeded(f) =>
              /\ key \in DOMAIN cache
              /\ cache[key].timestamp >= rec.doneAt
              \* the entry is the one f wrote, or one written over it since
              /\ \E g \in Fetchers :
                    /\ Succeeded(g)
                    /\ fetches[g].handle = rec.handle
                    /\ cache[key] = [data |-> fetches[g].value,
                                     timestamp |-> fetches[g].doneAt]

\* C16: every adapter, skillrack included, looks the identity up in the
\* cache before any remote call and writes the value of a successful fetch
\* to the cache before it returns.
C16_EveryAdapterUsesCache ==
    \A f \in Fetchers : CachedAround(f)

\* C16 holds of the four adapters other than skillrack
C16_HoldsOfCachingAdapters ==
    \A f \in Fetchers : fetches[f].platform # "skillrack" => CachedAround(f)

\* the adapter calls that ended after nothing but failures of the remote call
Degraded ==
    {f \in Settled : fetches[f].outcomes # <<>> /\ AllFailed(f, Len(fetches[f].outcomes))}

\* C17: every adapter, skillrack included, makes its remote call under
\* retryRequest: a call gives up only after three failed attempts, with the
\* backoff timers of 2000 and 4000 ms between them.
C17_EveryAdapterRetries ==
    \A f \in Degraded :
        /\ fetches[f].calls = RETRY_ATTEMPTS
        /\ fetches[f].sleeps = <<RETRY_DELAY, 2 * RETRY_DELAY>>

\* C17 holds of the four adapters other than skillrack
C17_HoldsOfRetryingAdapters ==
    \A f \in Degraded :
        fetches[f].platform # "skillrack" =>
            /\ fetches[f].calls = RETRY_ATTEMPTS
            /\ fetches[f].sleeps = <<RETRY_DELAY, 2 * RETRY_DELAY>>

\* C18: a malformed or empty response is not retried: it is the last
\* invocation of the call, no backoff timer is set after it, and the adapter
\* resolves with the platform's zero metrics.
C18_MalformedNotRetried ==
    \A f \in Fetchers :
        \A k \in 1 .. Len(fetches[f].outcomes) :
            fetches[f].outcomes[k].how = "malformed" =>
                /\ k = Len(fetches[f].outcomes)
                /\ fetches[f].calls = k
                /\ fetches[f].pc = "done"
                /\ fetches[f].status = "fulfilled"
                /\ fetches[f].value = Zero(fetches[f].platform)
                /\ Len(fetches[f].sleeps) = Cardinality(Failures(f))
                /\ Failures(f) = 1 .. (k - 1)

\* C18's case: a codeforces response with a status other than OK, after a
\* failed first attempt
C18_Witness ==
    \E f \in Fetchers :
        /\ fetches[f].platform = "codeforces"
        /\ Len(fetches[f].outcomes) = 2
        /\ fetches[f].outcomes[2].how = "malformed"
        /\ fetches[f].sleeps = <<RETRY_DELAY>>
        /\ fetches[f].pc = "done"

\* the calls that found no entry under their key: for the identity alice,
\* those that started before any call wrote the cache
Missed == {f \in Fetchers : fetches[f].looked /\ ~fetches[f].lookup.had}

\* this step is the successful return of call f of a caching adapter
Succeeds(f) ==
    /\ UsesCache(plat)
    /\ fetches[f].pc # "done"
    /\ fetches'[f].pc = "done"
    /\ fetches'[f].status = "fulfilled"
    /\ fetches'[f].outcomes # <<>>
    /\ fetches'[f].outcomes[Len(fetches'[f].outcomes)].how = "ok"

\* C25: calls for one platform and identity that start before any of them
\* has written the cache all miss, all wait on the platform's limiter and
\* all make the remote call; every successful call overwrites the entry of
\* its key with its value and the current time, whatever was there, and
\* leaves the entries of other keys alone; nothing else changes the cache,
\* so the entry is that of the set that ran last.
C25_ConcurrentFetchesLastSetWins ==
    [][/\ \A f \in Missed' :
             LET rec == fetches'[f]
             IN  /\ ~rec.cacheHit
                 /\ rec.waits # <<>>
                 /\ rec.waits[1] = LimiterOf(plat)
                 /\ rec.pc # "limiterSleep" => rec.calls >= 1
       /\ \A f \in Fetchers :
             Succeeds(f) =>
                 LET key == CacheKey(plat, fetches'[f].handle)
                 IN  /\ DOMAIN cache' = DOMAIN cache \cup {key}
                     /\ cache'[key] = [data |-> fetches'[f].value, timestamp |-> now]
                     /\ \A k \in DOMAIN cache \ {key} : cache'[k] = cache[k]
       /\ cache' # cache => \E f \in Fetchers : Succeeds(f)]_vars

\* C25's case: two calls for alice both missed, both waited and called the
\* platform, and succeeded at different times with different values; the
\* cache holds the later one's value and time, and bob's entry as it was
C25_Witness ==
    \E f, g \in Fetchers :
        /\ {f, g} \subseteq Missed
        /\ Succeeded(f) /\ Succeeded(g)
        /\ fetches[f].handle = fetches[g].handle
        /\ fetches[f].doneAt < fetches[g].doneAt
        /\ fetches[f].value # fetches[g].value
        /\ fetches[f].calls >= 1 /\ fetches[g].calls >= 1
        /\ cache[CacheKey(plat, fetches[g].handle)] =
              [data |-> fetches[g].value, timestamp |-> fetches[g].doneAt]
        /\ cache[CacheKey(plat, Str("bob"))] = EarlierEntries(plat)[CacheKey(plat, Str("bob"))]

\* the calls of wait() that call f has made on limiter l
WaitsOn(rec, l) == {k \in 1 .. Len(rec.waits) : rec.waits[k] = l}

\* this step is a second or third attempt of call f leaving
RetryDispatch(f) ==
    /\ fetches[f].calls >= 1
    /\ fetches'[f].calls = fetches[f].calls + 1

\* C26: an adapter call waits on its platform's limiter exactly once, before
\* its first attempt (github's search waits once more, on the search
\* limiter); a second or third attempt leaves from the backoff timer with
\* no wait() and with lastRequest of every limiter as it was.
C26_RetriesBypassLimiter ==
    [][\A f \in Fetchers :
          LET rec == fetches'[f]
              l == LimiterOf(plat)
          IN  /\ rec.pc = "limiterSleep" => rec.waits = <<l>> /\ rec.calls = 0
              /\ rec.calls >= 1 =>
                    /\ rec.waits[1] = l
                    /\ Cardinality(WaitsOn(rec, l)) = 1
                    /\ \A k \in 2 .. Len(rec.waits) :
                          rec.waits[k] = "githubSearchLimiter" /\ k = 2
              /\ fetches'[f].calls > fetches[f].calls =>
                    fetches'[f].calls = fetches[f].calls + 1
              /\ RetryDispatch(f) =>
                    /\ fetches[f].pc = "backoff"
                    /\ rec.waits = fetches[f].waits
                    /\ lastRequest' = lastRequest]_vars

\* C26's case: f's first attempt left at StartTime and failed at once, so
\* its retry left at StartTime + 2000, which is now; meanwhile g waited on
\* the limiter and its attempt left at lastRequest, less than the limiter's
\* interval before f's retry
C26_Witness ==
    \E f, g \in Fetchers :
        LET l == LimiterOf(plat)
        IN  /\ f # g
            /\ fetches[f].pc = "remote"
            /\ fetches[f].calls = 2
            /\ fetches[f].sleeps = <<BackoffDelay(0)>>
            /\ now = StartTime + BackoffDelay(0)
            /\ fetches[g].calls >= 1
            /\ fetches[g].waits[1] = l
            /\ lastRequest[l] > StartTime
            /\ now - lastRequest[l] > 0
            /\ now - lastRequest[l] < LimiterDelay[l]

\* call g of the github adapter has returned the result of a successful
\* primary lookup and a failed merged-PR search
DegradedSearch(g) == Succeeded(g) /\ fetches[g].search = "fail"

\* C27: when github's merged-PR search fails after a successful primary
\* lookup, the result with mergedPRs = 0 is cached like any other; a later
\* call for the identity within the TTL returns it from the cache, with
\* mergedPRs = 0 and no wait() or request, the search included.  A call
\* whose primary lookup exhausted its retries rejects and leaves the cache
\* as it is: the zero processStudent substitutes is not cached.
C27_DegradedGithubResultIsCached ==
    [][plat = "github" =>
          \A f \in Fetchers :
              LET rec == fetches'[f]
                  key == CacheKey("github", rec.handle)
              IN  /\ (fetches[f].pc = "remote2" /\ rec.search = "fail") =>
                        /\ rec.pc = "done" /\ rec.status = "fulfilled"
                        /\ rec.value = [repos |-> fetches[f].repos, mergedPRs |-> 0]
                        /\ key \in DOMAIN cache'
                        /\ cache'[key] = [data |-> rec.value, timestamp |-> now]
                  /\ \A g \in Fetchers :
                        (StartsWithinTTLOf(f, g) /\ DegradedSearch(g)) =>
                            /\ ServedFromCache(f)
                            /\ rec.value = fetches[g].value
                            /\ rec.value.mergedPRs = 0
                            /\ rec.search = "none"
                  /\ (fetches[f].status = "pending" /\ rec.status = "rejected") =>
                        /\ cache' = cache
                        /\ rec.calls = RETRY_ATTEMPTS
                  /\ (\A g \in Fetchers : fetches'[g].status = "rejected") =>
                        cache' = EarlierEntries(plat)]_vars

\* C27's case: g's search failed after a primary lookup that reported a
\* repository; a millisecond less than the TTL later f was called for the
\* same identity and returned g's result, mergedPRs = 0, from the cache
C27_Witness ==
    \E f, g \in Fetchers :
        /\ plat = "github"
        /\ DegradedSearch(g)
        /\ fetches[g].value = [repos |-> 1, mergedPRs |-> 0]
        /\ fetches[f].pc = "done"
        /\ fetches[f].cacheHit
        /\ fetches[f].doneAt = fetches[g].doneAt + CACHE_DURATION - 1
        /\ fetches[f].value = fetches[g].value
        /\ fetches[f].calls = 0
        /\ fetches[f].search = "none"

(***************************************************************************)
(* SpecStudent: one call of processStudent, with any entity; the five      *)
(* adapter promises settle in any order, each in any way its adapter can.  *)
(***************************************************************************)
SampleStudents ==
    {NullStudent, MkStudent(1, NoHandles), MkStudent(1, MixedHandles),
     MkStudent(1, FullHandles)}

InitStudent ==
    /\ now = StartTime
    /\ lastRequest = NewLimiters
    /\ student \in SampleStudents
    /\ settled = [p \in Platforms |-> Pending]
    /\ ps = IdleStudent
    /\ LimiterUnused
    /\ FetchUnused
    /\ RunUnused
    /\ DiskUnused

\* processStudent(student) is called: lines 449-458, up to the await
StudentCall ==
    /\ ps.pc = "idle"
    /\ ps' = StudentCalled(student)
    /\ UNCHANGED <<now, lastRequest, student, settled, limiterVars, fetchVars, runVars, diskVars>>

\* the promise of adapter p settles
AdapterSettles(p, o) ==
    /\ ps.pc = "joining"
    /\ settled[p] = Pending
    /\ o \in AdapterOutcomes(p, student.handles[p])
    /\ settled' = [settled EXCEPT ![p] = o]
    /\ UNCHANGED <<now, lastRequest, student, ps, limiterVars, fetchVars, runVars, diskVars>>

\* Promise.allSettled resolves: lines 460-478
StudentJoin ==
    /\ ps.pc = "joining"
    /\ \A p \in Platforms : settled[p] # Pending
    /\ ps' = [pc |-> "resolved", result |-> JoinResult(student, settled)]
    /\ UNCHANGED <<now, lastRequest, student, settled, limiterVars, fetchVars, runVars, diskVars>>

NextStudent ==
    \/ StudentCall
    \/ \E p \in Platforms :
          \E o \in {Rejected} \cup {Fulfilled(v) : v \in AdapterValues(p)} :
              AdapterSettles(p, o)
    \/ StudentJoin

SpecStudent == InitStudent /\ [][NextStudent]_vars

(***************************************************************************)
(* Claims about processStudent (SpecStudent)                               *)
(***************************************************************************)
PlatformsRejected == {p \in Platforms : settled[p].status = "rejected"}

\* C5: a result processStudent resolves with has all five platform keys; a
\* platform whose call rejected holds its zero metrics, and every other
\* platform holds exactly the value its call resolved with.
C5_AllPlatformKeysPopulated ==
    ps.pc = "resolved" =>
        /\ Platforms \subseteq DOMAIN ps.result.data
        /\ \A p \in Platforms :
              /\ settled[p].status = "rejected" => ps.result.data[p] = Zero(p)
              /\ settled[p].status = "fulfilled" =>
                     ps.result.data[p] = settled[p].value

\* C5's case: some calls rejected, another resolved with real metrics
C5_Witness ==
    /\ ps.pc = "resolved"
    /\ PlatformsRejected = {"github", "codeforces"}
    /\ ps.result.data.leetcode.total = 1
    /\ ps.result.data.skillrack.solved = 1

\* the sum of the four count-style metrics of a record
CountSum(d) ==
    d.leetcode.total + d.codeforces.solved + d.atcoder.solved + d.skillrack.solved

\* C6: in the result of the normal path and in the result the catch handler
\* builds, totalCP is the sum of leetcode.total, codeforces.solved,
\* atcoder.solved and skillrack.solved of the same record; the github
\* metrics are no part of it.
C6_TotalIsSumOfCounts ==
    /\ ps.pc = "resolved" => ps.result.data.totalCP = CountSum(ps.result.data)
    /\ \A s \in SampleStudents :
          CatchResult(s).data.totalCP = CountSum(CatchResult(s).data)

\* C6's case: a result with github metrics and a non-zero total
C6_Witness ==
    /\ ps.pc = "resolved"
    /\ ps.result.data.github.repos = 1
    /\ ps.result.data.github.mergedPRs = 1
    /\ ps.result.data.totalCP = 3
    /\ ps.result.data.atcoder.solved = 0

\* C7: processStudent never rejects; it resolves with a result for every
\* entity and every outcome of the adapter calls.
C7_NeverFailsItsCaller ==
    ps.pc \in {"idle", "joining", "resolved"}

(***************************************************************************)
(* Spec: runScraper (lines 523-578) with processBatch (lines 501-520) over *)
(* a cohort.  Every entity is null or has all its handles (SpecStudent and *)
(* SpecFetch cover the other shapes); the remote calls made for an entity  *)
(* all succeed or all fail; the entities of a chunk complete in any order. *)
(***************************************************************************)
Min(a, b) == IF a < b THEN a ELSE b

\* array.slice(from, from + width), with from 0-based
Slice(seq, from, width) == SubSeq(seq, from + 1, Min(from + width, Len(seq)))

StudentKinds == {"null", "full"}

StudentOfKind(k, kind) ==
    CASE kind = "null" -> NullStudent
      [] kind = "full" -> MkStudent(k, FullHandles)

\* how the five adapter promises of entity s settle: zero metrics on an
\* unusable identity, else the platform's count for the entity, or, when
\* the entity's remote calls fail, what the adapter makes of the failure
EntityOutcomes(s, failing) ==
    [p \in Platforms |->
        IF ~HandleUsable(p, s.handles[p]) THEN Fulfilled(Zero(p))
        ELSE IF ~failing THEN Fulfilled(Metrics(p, s.id))
        ELSE IF UsesRetry(p) THEN Rejected
        ELSE Fulfilled(Zero(p))]

\* Array.prototype.sort with the comparator (a, b) => key(b) - key(a), where
\* keys[k] is the key of seq[k]: descending by key, equal keys keeping
\* their order
SortDesc(seq, keys) ==
    LET n == Len(seq)
        Before(a, b) ==
            \/ keys[a] > keys[b]
            \/ keys[a] = keys[b] /\ a < b
        Pos(a) == 1 + Cardinality({b \in 1 .. n : Before(b, a)})
    IN  [k \in 1 .. n |-> seq[CHOOSE a \in 1 .. n : Pos(a) = k]]

\* displayTopPerformers (lines 632-666) sorts its argument in place, thrice
TopPerformersSort(results) ==
    LET byLeetcode ==
            SortDesc(results,
                     [k \in 1 .. Len(results) |-> results[k].data.leetcode.total])
        byGithub ==
            SortDesc(byLeetcode,
                     [k \in 1 .. Len(results) |->
                         byLeetcode[k].data.github.repos
                             + byLeetcode[k].data.github.mergedPRs])
    IN  SortDesc(byGithub,
                 [k \in 1 .. Len(results) |-> byGithub[k].data.totalCP])

\* lines 620-622: a mutant whose reduce has an initial value
SummaryThrowsNever(results) == FALSE

\* generateSummary (lines 581-629) throws on an empty list: reduce without
\* an initial value, line 620
SummaryThrows(results) == Len(results) = 0

\* line 508: a mutant that cuts the chunk one entity too wide
ChunkOfTooWide(b) == Slice(b.students, b.j, CONCURRENCY + 1)

\* line 508
ChunkOf(b) == Slice(b.students, b.j, CONCURRENCY)

\* lines 508-511: the chunk is cut and processStudent is called for each of
\* its entities, up to the await of Promise.all
StartChunk(b) ==
    [b EXCEPT !.pc = "chunk",
              !.calls = [k \in 1 .. Len(ChunkOf(b)) |-> StudentCalled(ChunkOf(b)[k])],
              !.order = <<>>]

\* lines 501-507: processBatch is called with a batch
StartBatch(sts) ==
    IF Len(sts) = 0
    THEN [IdleBatch EXCEPT !.pc = "returned"]
    ELSE StartChunk([IdleBatch EXCEPT !.students = sts])

\* a mutant of line 511: the results in the order the calls completed
ChunkResultsAsCompleted(b) ==
    [k \in 1 .. Len(b.calls) |-> b.calls[b.order[k]].result]

\* line 511: Promise.all resolves with the results in the order of the calls
ChunkResults(b) == [k \in 1 .. Len(b.calls) |-> b.calls[k].result]

\* lines 557-562: a mutant that goes on to the summary without saveCache
FinalizeWithoutSave(r, writable) ==
    IF SummaryThrows(r.allResults)
    THEN [r EXCEPT !.pc = "failed", !.cause = "summary"]
    ELSE [r EXCEPT !.pc = "summary"]

\* lines 557-562: saveCache (whose write may fail, which it absorbs), then
\* generateSummary, and the summary is being written
Finalize(r, writable) ==
    LET saved == [r EXCEPT !.cacheSaves = @ + 1,
                           !.saveErrors = IF writable THEN @ ELSE @ + 1]
    IN  IF SummaryThrows(r.allResults)
        THEN [saved EXCEPT !.pc = "failed", !.cause = "summary"]
        ELSE [saved EXCEPT !.pc = "summary"]

\* the head of the batch loop (lines 537-541): the next batch is handed to
\* processBatch, or the loop has ended
EnterLoop(r) ==
    IF r.i < Len(students)
    THEN /\ run' = [r EXCEPT !.pc = "batch"]
         /\ batch' = StartBatch(Slice(students, r.i, BATCH_SIZE))
         /\ UNCHANGED cacheFile
    ELSE \E writable \in BOOLEAN :
            /\ run' = Finalize(r, writable)
            /\ cacheFile' = IF run'.cacheSaves > r.cacheSaves
                            THEN SaveCache(cacheFile, cache, writable)
                            ELSE cacheFile
            /\ batch' = IdleBatch

InitRun ==
    /\ now = StartTime
    /\ lastRequest = NewLimiters
    /\ \E n \in 0 .. MaxStudents :
          \E kinds \in [1 .. n -> StudentKinds] :
              /\ students = [k \in 1 .. n |-> StudentOfKind(k, kinds[k])]
              /\ fails \in {fl \in [1 .. n -> BOOLEAN] :
                               \A k \in 1 .. n : fl[k] => kinds[k] = "full"}
    /\ run = IdleRun
    /\ batch = IdleBatch
    /\ cacheFile \in {MissingFile, CorruptFile, ValidFile(<<>>)}
    /\ cache = LoadCache(cacheFile)
    /\ proc = [IdleProc EXCEPT !.loadedFrom = cacheFile.state]
    /\ LimiterUnused
    /\ FetchUnused
    /\ StudentUnused

\* students_mock.json has been read (lines 530-541)
Load ==
    /\ run.pc = "start"
    /\ EnterLoop(run)
    /\ UNCHANGED <<now, lastRequest, students, fails, limiterVars, fetchVars, studentVars, proc>>

\* students_mock.json cannot be read (lines 574-577)
LoadFails ==
    /\ run.pc = "start"
    /\ run' = [run EXCEPT !.pc = "failed", !.cause = "input"]
    /\ UNCHANGED <<now, lastRequest, students, fails, batch, limiterVars, fetchVars, studentVars, diskVars>>

\* the adapter promises of the k-th entity of the chunk have settled and
\* its processStudent resolves (lines 460-478)
StudentResolves(k) ==
    /\ run.pc = "batch"
    /\ batch.pc = "chunk"
    /\ k \in 1 .. Len(batch.calls)
    /\ batch.calls[k].pc = "joining"
    /\ LET s == ChunkOf(batch)[k]
           outs == EntityOutcomes(s, fails[run.i + batch.j + k])
       IN  batch' = [batch EXCEPT
               !.calls[k] = [pc |-> "resolved", result |-> JoinResult(s, outs)],
               !.order = Append(@, k)]
    /\ UNCHANGED <<now, lastRequest, students, fails, run, limiterVars, fetchVars, studentVars, diskVars>>

\* did the calls complete in the order they were made?  (run.reordered
\* remembers a chunk where they did not)
InCallOrder(order) == \A k \in 1 .. Len(order) : order[k] = k

\* Promise.all resolves (lines 511-518): the chunk's results are appended
\* and the next chunk starts, or processBatch returns
ChunkJoined ==
    /\ run.pc = "batch"
    /\ batch.pc = "chunk"
    /\ \A k \in 1 .. Len(batch.calls) : batch.calls[k].pc = "resolved"
    /\ LET b == [batch EXCEPT !.results = @ \o ChunkResults(batch),
                              !.j = @ + CONCURRENCY]
       IN  batch' = IF b.j < Len(b.students)
                    THEN StartChunk(b)
                    ELSE [b EXCEPT !.pc = "returned", !.calls = <<>>, !.order = <<>>]
    /\ run' = [run EXCEPT !.reordered = @ \/ ~InCallOrder(batch.order)]
    /\ UNCHANGED <<now, lastRequest, students, fails, limiterVars, fetchVars, studentVars, diskVars>>

\* a processStudent of the chunk has rejected: Promise.all rejects (line
\* 511), processBatch rejects (line 541), runScraper's catch exits
\* (lines 574-577)
ChunkRejected ==
    /\ run.pc = "batch"
    /\ batch.pc = "chunk"
    /\ \E k \in 1 .. Len(batch.calls) : batch.calls[k].pc = "rejected"
    /\ run' = [run EXCEPT !.pc = "failed", !.cause = "entity"]
    /\ UNCHANGED <<now, lastRequest, students, fails, batch, limiterVars, fetchVars, studentVars, diskVars>>

\* line 542: a mutant that keeps the last batch only
AccumulateLastOnly(all, batchResults) == batchResults

\* line 542: allResults.push(...batchResults)
Accumulate(all, batchResults) == all \o batchResults

\* processBatch has returned (lines 541-545): results.json is being written
BatchReturned ==
    /\ run.pc = "batch"
    /\ batch.pc = "returned"
    /\ run' = [run EXCEPT !.pc = "checkpoint",
                          !.allResults = Accumulate(@, batch.results)]
    /\ batch' = IdleBatch
    /\ UNCHANGED <<now, lastRequest, students, fails, limiterVars, fetchVars, studentVars, diskVars>>

\* line 552: a mutant that pauses after every batch
MoreBatchesAlways(r) == TRUE

\* line 552: does another batch follow?
MoreBatches(r) == r.i + BATCH_SIZE < Len(students)

\* results.json is written (lines 545-554): pause when a batch follows,
\* else the loop ends
CheckpointWritten ==
    /\ run.pc = "checkpoint"
    /\ LET r == [run EXCEPT !.snapshots = Append(@, run.allResults)]
       IN  IF MoreBatches(r)
           THEN /\ run' = [r EXCEPT !.pc = "pause", !.pauses = @ + 1]
                /\ UNCHANGED <<batch, cacheFile>>
           ELSE EnterLoop([r EXCEPT !.i = @ + BATCH_SIZE])
    /\ UNCHANGED <<now, lastRequest, students, fails, limiterVars, fetchVars, studentVars, proc>>

\* results.json cannot be written (lines 574-577)
CheckpointFails ==
    /\ run.pc = "checkpoint"
    /\ run' = [run EXCEPT !.pc = "failed", !.cause = "snapshot"]
    /\ UNCHANGED <<now, lastRequest, students, fails, batch, limiterVars, fetchVars, studentVars, diskVars>>

\* the pause of line 553 is over: next iteration of the batch loop
PauseEnds ==
    /\ run.pc = "pause"
    /\ EnterLoop([run EXCEPT !.i = @ + BATCH_SIZE])
    /\ UNCHANGED <<now, lastRequest, students, fails, limiterVars, fetchVars, studentVars, proc>>

\* summary.json is written (lines 562-572): displayTopPerformers
SummaryWritten ==
    /\ run.pc = "summary"
    /\ run' = [run EXCEPT !.pc = "done", !.summaries = @ + 1,
                          !.allResults = TopPerformersSort(@)]
    /\ UNCHANGED <<now, lastRequest, students, fails, batch, limiterVars, fetchVars, studentVars, diskVars>>

\* summary.json cannot be written (lines 574-577)
SummaryFails ==
    /\ run.pc = "summary"
    /\ run' = [run EXCEPT !.pc = "failed", !.cause = "summaryWrite"]
    /\ UNCHANGED <<now, lastRequest, students, fails, batch, limiterVars, fetchVars, studentVars, diskVars>>

Next ==
    \/ Load
    \/ LoadFails
    \/ \E k \in 1 .. CONCURRENCY : StudentResolves(k)
    \/ ChunkJoined
    \/ ChunkRejected
    \/ BatchReturned
    \/ CheckpointWritten
    \/ CheckpointFails
    \/ PauseEnds
    \/ SummaryWritten
    \/ SummaryFails

Spec == InitRun /\ [][Next]_vars

(***************************************************************************)
(* Claims about runScraper and processBatch (Spec)                         *)
(***************************************************************************)
\* the batch loop has ended and allResults is as the loop left it
LoopFinished ==
    \/ run.pc = "summary"
    \/ run.pc = "failed" /\ run.cacheSaves = 1

\* the first n results are those of the first n entities, in input order
ResultsOfFirst(results, n) ==
    /\ Len(results) = n
    /\ \A k \in 1 .. n : results[k].id = students[k].id

\* C1: when the batch loop has finished, allResults holds exactly one result
\* per entity of the cohort and the i-th result is that of the i-th entity,
\* whichever calls failed and in whichever order the entities completed.
C1_OneResultPerEntityInOrder ==
    LoopFinished => ResultsOfFirst(run.allResults, Len(students))

\* C1's case: a cohort of several batches, with entities whose calls failed
\* and a chunk whose entities completed out of order
C1_Witness ==
    /\ run.pc = "summary"
    /\ run.reordered
    /\ Len(students) = MaxStudents
    /\ \E k \in 1 .. Len(students) : fails[k]
    /\ \E k \in 1 .. Len(students) : ~fails[k] /\ students[k].handles = FullHandles
    /\ Len(run.snapshots) >= 2

\* the processStudent calls that have been made and have not settled
InFlight == {k \in 1 .. Len(batch.calls) : batch.calls[k].pc = "joining"}

\* the entities processStudent has been called for so far
StartedCount ==
    IF batch.pc = "chunk" THEN run.i + batch.j + Len(batch.calls)
    ELSE Len(run.allResults) + Len(batch.results)

\* C13: at most CONCURRENCY processStudent calls are in flight at any time,
\* and while a chunk is being processed every entity of the chunks and
\* batches before it has completed and has its result.
C13_AtMostCInFlight ==
    /\ Len(batch.calls) <= CONCURRENCY
    /\ Cardinality(InFlight) <= CONCURRENCY
    /\ batch.pc = "chunk" =>
          /\ Len(run.allResults) = run.i
          /\ Len(batch.results) = batch.j
          /\ ResultsOfFirst(run.allResults \o batch.results, run.i + batch.j)
          /\ StartedCount <= run.i + batch.j + CONCURRENCY

\* C13's case: a full chunk in flight in the second batch
C13_Witness ==
    /\ run.pc = "batch"
    /\ run.i > 0
    /\ Cardinality(InFlight) = CONCURRENCY
    /\ Len(run.snapshots) = 1

\* ceil(n / BATCH_SIZE)
BatchesOf(n) == (n + BATCH_SIZE - 1) \div BATCH_SIZE

\* the batches whose checkpoint has to have been written by now
BatchesCheckpointed ==
    CASE run.pc \in {"start", "batch", "checkpoint"} -> run.i \div BATCH_SIZE
      [] run.pc = "pause" -> run.i \div BATCH_SIZE + 1
      [] OTHER -> Len(run.snapshots)

\* C14: results.json is written exactly once after each batch and before
\* any entity of the next batch starts; the k-th snapshot holds the results
\* of the first min(k * BATCH_SIZE, N) entities, in input order, and after
\* the loop there are ceil(N / BATCH_SIZE) snapshots.
C14_SnapshotAfterEachBatch ==
    /\ Len(run.snapshots) = BatchesCheckpointed
    /\ \A k \in 1 .. Len(run.snapshots) :
          /\ ResultsOfFirst(run.snapshots[k], Min(k * BATCH_SIZE, Len(students)))
          /\ run.pc # "done" =>
                /\ Len(run.snapshots[k]) <= Len(run.allResults)
                /\ run.snapshots[k] = SubSeq(run.allResults, 1, Len(run.snapshots[k]))
    /\ run.pc \in {"summary", "done"} =>
          Len(run.snapshots) = BatchesOf(Len(students))
    /\ batch.pc = "chunk" =>
          Len(run.snapshots) * BATCH_SIZE = run.i

\* C14's case: three batches, the last one short, with failed calls
C14_Witness ==
    /\ run.pc = "summary"
    /\ Len(run.snapshots) = 3
    /\ Len(run.snapshots[1]) = BATCH_SIZE
    /\ Len(run.snapshots[2]) = 2 * BATCH_SIZE
    /\ Len(run.snapshots[3]) = Len(students)
    /\ Len(students) < 3 * BATCH_SIZE
    /\ \E k \in 1 .. Len(students) : fails[k]

\* C20: the pause follows a batch's checkpoint exactly when another batch
\* follows: while the loop runs there has been one pause per checkpoint
\* written, the pause is only entered with a batch still to come, a batch's
\* chunks add none, and a run that finishes its loop over a non-empty
\* cohort has paused ceil(N / BATCH_SIZE) - 1 times.
C20_PauseBetweenBatchesOnly ==
    /\ run.pc \in {"start", "batch", "checkpoint", "pause"} =>
          run.pauses = Len(run.snapshots)
    /\ run.pc = "pause" => run.i + BATCH_SIZE < Len(students)
    /\ batch.pc = "chunk" => run.pauses = run.i \div BATCH_SIZE
    /\ run.pc \in {"summary", "done"} =>
          /\ run.pauses = BatchesOf(Len(students)) - 1
          /\ run.pauses = Len(run.snapshots) - 1

\* C20's case: a run of three batches, each of the first two of two chunks,
\* has finished its loop after two pauses
C20_Witness ==
    /\ run.pc = "summary"
    /\ BatchesOf(Len(students)) = 3
    /\ run.pauses = 2
    /\ BATCH_SIZE > CONCURRENCY

\* C21: cache.saveCache() is called exactly once per run that finishes its
\* batch loop, in the step that follows the last batch's checkpoint and
\* before the summary is written; cache.json changes in that step only (no
\* batch, checkpoint or pause writes it), so while the loop runs, and in a
\* run that aborted before finalizing, it is the file the process started on.
C21_CacheSavedOnceAtTheEnd ==
    [][/\ run'.cacheSaves \in {run.cacheSaves, run.cacheSaves + 1}
       /\ cacheFile' # cacheFile => run'.cacheSaves = run.cacheSaves + 1
       /\ run'.cacheSaves = run.cacheSaves + 1 =>
             /\ run.cacheSaves = 0
             /\ run.pc \in {"start", "checkpoint", "pause"}
             /\ run'.pc \in {"summary", "failed"}
             /\ Len(run'.snapshots) = BatchesOf(Len(students))
             /\ run'.summaries = 0
             /\ cacheFile' \in {ValidFile(cache), cacheFile}
             /\ run'.saveErrors = 0 => cacheFile' = ValidFile(cache)
       /\ run'.summaries > run.summaries => run.cacheSaves = 1
       /\ run'.pc \in {"summary", "done"} => run'.cacheSaves = 1
       /\ run'.pc \in {"start", "batch", "checkpoint", "pause"} =>
             run'.cacheSaves = 0
       /\ run'.pc = "failed" /\ run'.cause \in {"input", "entity", "snapshot"} =>
             run'.cacheSaves = 0
       /\ run'.cacheSaves = 0 =>
             /\ cacheFile'.state = proc.loadedFrom
             /\ cacheFile' = cacheFile]_vars

\* C21's case: a run of three batches that started on a corrupt cache.json
\* has written its summary; the cache was saved once, after three snapshots
C21_Witness ==
    /\ run.pc = "done"
    /\ Len(run.snapshots) = 3
    /\ run.cacheSaves = 1
    /\ run.saveErrors = 0
    /\ proc.loadedFrom = "corrupt"
    /\ cacheFile = ValidFile(cache)

\* the conditions the specification calls fatal: students_mock.json cannot
\* be read, results.json or summary.json cannot be written
FatalConditions == {"input", "snapshot", "summaryWrite"}

\* C22: a run is aborted (process.exit(1)) by a fatal condition only: the
\* cohort input cannot be read or a snapshot or the summary cannot be
\* written; no failure of a platform call, of an entity's processing, of the
\* cache load or of the cache save aborts it.
C22_OnlyFatalConditionsAbort ==
    /\ run.cause # "none" => run.pc = "failed"
    /\ run.pc = "failed" => run.cause \in FatalConditions

\* C23: a run over a non-empty cohort that has come to its end without a
\* fatal condition has been through its finalizing step (the form of "it
\* eventually reaches its finalizing step" that a finite run refutes: the
\* aborted run takes no further step).
C23_NonEmptyRunReachesFinalizing ==
    (Len(students) > 0 /\ run.pc = "failed" /\ run.cause \notin FatalConditions)
        => run.cacheSaves = 1

\* C28: over an empty cohort the batch loop runs zero times: no batch, no
\* snapshot and no pause; once the input is read the cache is saved and
\* generateSummary throws, so the run ends aborted, never with a summary.
C28_EmptyCohortAborts ==
    Len(students) = 0 =>
        /\ run.pc \in {"start", "failed"}
        /\ batch = IdleBatch
        /\ run.i = 0
        /\ run.allResults = <<>>
        /\ run.snapshots = <<>>
        /\ run.pauses = 0
        /\ run.summaries = 0
        /\ run.pc = "start" => run.cacheSaves = 0
        /\ run.pc = "failed" =>
              \/ run.cause = "input" /\ run.cacheSaves = 0
              \/ run.cause = "summary" /\ run.cacheSaves = 1

\* C28's case: students_mock.json held an empty array; the cache has been
\* saved and the run has aborted in generateSummary
C28_Witness ==
    /\ Len(students) = 0
    /\ run.pc = "failed"
    /\ run.cause = "summary"
    /\ run.cacheSaves = 1
    /\ run.saveErrors = 0
    /\ run.snapshots = <<>>
    /\ proc.loadedFrom = "missing"
    /\ cacheFile = ValidFile(cache)

(***************************************************************************)
(* SpecCache: the Cache instance over the life of cache.json.  A process   *)
(* constructs the Cache from the file (lines 159-162), sets entries, saves *)
(* the cache; the file may be deleted or damaged between runs; the next    *)
(* process constructs its Cache from what is there.                        *)
(***************************************************************************)
\* the keys and values the processes store
CacheKeys == {CacheKey(p, Str("alice")) : p \in {"leetcode", "codeforces"}}

\* what the first process may find: no file, a damaged one, or the file a
\* former run saved, with an entry written just before or a TTL ago
CacheFiles ==
    {MissingFile, CorruptFile, ValidFile(<<>>)}
        \cup {ValidFile([k \in {CacheKey("leetcode", Str("alice"))} |->
                            [data |-> Metrics("leetcode", 1), timestamp |-> t]]) :
                 t \in {StartTime - 1, StartTime - CACHE_DURATION}}

\* new Cache() (lines 159-162) in process number n
Construct(file, n) ==
    [pc |-> IF LoadCacheThrows(file) THEN "crashed" ELSE "up",
     loadedFrom |-> file.state, sets |-> 0, starts |-> n]

InitCache ==
    /\ now = StartTime
    /\ lastRequest = NewLimiters
    /\ cacheFile \in CacheFiles
    /\ cache = LoadCache(cacheFile)
    /\ proc = Construct(cacheFile, 1)
    /\ plat = "leetcode"
    /\ fetches = [f \in Fetchers |-> IdleFetch]
    /\ LimiterUnused
    /\ StudentUnused
    /\ RunUnused

\* cache.set(key, data) (lines 191-196)
CacheStore(key, data) ==
    /\ proc.pc = "up"
    /\ proc.sets < MaxSets
    /\ cache' = CacheSet(key, data)
    /\ proc' = [proc EXCEPT !.sets = @ + 1]
    /\ UNCHANGED <<now, lastRequest, cacheFile, plat, fetches, limiterVars, studentVars, runVars>>

\* cache.saveCache() (lines 175-181)
CachePersist(writable) ==
    /\ proc.pc = "up"
    /\ cacheFile' = SaveCache(cacheFile, cache, writable)
    /\ cacheFile' # cacheFile
    /\ UNCHANGED <<now, lastRequest, cache, proc, plat, fetches, limiterVars, studentVars, runVars>>

\* cache.json is deleted, or damaged (truncated, overwritten)
FileLost(file) ==
    /\ file \in {MissingFile, CorruptFile}
    /\ cacheFile # file
    /\ cacheFile' = file
    /\ UNCHANGED <<now, lastRequest, cache, proc, plat, fetches, limiterVars, studentVars, runVars>>

\* the process ends and the next one starts: its Cache is constructed from
\* cache.json as it is now
Restart ==
    /\ proc.pc = "up"
    /\ proc.starts < 2
    /\ cache' = LoadCache(cacheFile)
    /\ proc' = Construct(cacheFile, proc.starts + 1)
    /\ UNCHANGED <<now, lastRequest, cacheFile, plat, fetches, limiterVars, studentVars, runVars>>

NextCache ==
    \/ \E key \in CacheKeys, n \in RemoteCounts : CacheStore(key, Metrics(key[1], n))
    \/ \E writable \in BOOLEAN : CachePersist(writable)
    \/ \E file \in {MissingFile, CorruptFile} : FileLost(file)
    \/ Restart
    \/ \E d \in {CACHE_DURATION - 1, CACHE_DURATION} : AdvanceDay(d)

SpecCache == InitCache /\ [][NextCache]_vars

(***************************************************************************)
(* Claims about the Cache and cache.json (SpecCache)                       *)
(***************************************************************************)
\* C24: constructing the Cache never fails, and a Cache constructed while
\* cache.json was missing or could not be parsed is empty: until the first
\* set, every get is a miss.
C24_MissingOrCorruptFileGivesEmptyCache ==
    /\ proc.pc = "up"
    /\ (proc.loadedFrom \in {"missing", "corrupt"} /\ proc.sets = 0) =>
          /\ cache = <<>>
          /\ \A key \in CacheKeys : ~CacheGet(key).hit

\* C24's case: a process saved its entries, the file was damaged, and the
\* next process has constructed its Cache from the damaged file
C24_Witness ==
    /\ proc.starts = 2
    /\ proc.loadedFrom = "corrupt"
    /\ cacheFile = CorruptFile
    /\ proc.sets = 0

=============================================================================
